---- MODULE Spec2Model ----
(***************************************************************************)
(* rikskurs.se: plain-text HTTP API for exchange rates and bank days.      *)
(*                                                                         *)
(* A handler runs from its first line to the provider call (or to an       *)
(* early error response); the provider then answers with a series, a list  *)
(* of days or an error, and the handler runs to its end.  Spec serves one  *)
(* request at a time; ConcSpec serves several at once, one goroutine each. *)
(*                                                                         *)
(* Numbers: float64 rates and amounts are fixed-point integers in          *)
(* hundredths (9.50 is 950); a product of two of them is in                *)
(* ten-thousandths.  Dates are day numbers of January 2019                 *)
(* (2019-01-09 is 9); only their order is used by the code.                *)
(***************************************************************************)
EXTENDS Integers, Sequences, FiniteSets, TLC

VARIABLES
    handler,        \* the http.HandlerFunc serving the request in flight
    vars,           \* mux.Vars(r) of that request
    pc,             \* "idle" | "ExchangeRates" | "Days" | "done" | "panic"
    locals,         \* value, base, counter, day as parsed by the handler
    queries,        \* the provider requests issued for this request, in order
    reply,          \* what the provider answered (<<>> while there is none)
    exchangeRates,  \* rateForDate's filtered, sorted slice
    ret,            \* rateForDate's return values (rate, err)
    w               \* the http.ResponseWriter: status and body written

allvars == <<handler, vars, pc, locals, queries, reply, exchangeRates, ret, w>>

\* Requests in flight at the same time (one goroutine each), used by
\* ConcSpec; Spec leaves them alone, ConcSpec leaves the ones above alone.
VARIABLES
    request,        \* per goroutine: the handler and mux.Vars(r) it serves
    gpc,            \* per goroutine: "idle" | "ExchangeRates" | "Days" | "done" | "panic"
    frames,         \* activation records: locals, queries, exchangeRates, ret
    answer,         \* per goroutine: what the provider answered to its query
    writer,         \* per goroutine: its http.ResponseWriter
    overlapped      \* per goroutine: it ran while another was in flight

concvars == <<request, gpc, frames, answer, writer, overlapped>>

----------------------------------------------------------------------------
(* Bounds of the model *)

\* longest series / list of days the provider answers with
MaxObs == 2

\* requests the server handles at the same time
MaxInFlight == 2

----------------------------------------------------------------------------
(* Errors *)

NoError == "<nil>"
errNeedBaseCurrency == "need base currency"
errNeedCounterCurrency == "need counter currency"
errNoCurrencyDataForPeriod == "no data for currencies in that period"
errNoConversionRateForPeriod == "no conversion rate for that period"
errNoValueProvided == "no value provided"
errParseFloatSyntax == "strconv.ParseFloat: invalid syntax"
errDateParse == "parsing time: cannot parse"

\* what rb.ExchangeRates / rb.Days can fail with: transport, upstream, ctx
ProviderErrors == {"Post: connection refused", "soap: upstream fault", "context canceled"}

StatusUnprocessableEntity == 422
StatusInternalServerError == 500
StatusOK == 200

----------------------------------------------------------------------------
(* Inputs *)

\* {value} path variable, as a sequence of characters; <<>> is absent
ValueStrings == { <<>>, <<"1", "x", "5">>, <<"0">>, <<"1", ".", "5">> }
BaseStrings == {"", "sek"}
CounterStrings == {"", "nok", "USD"}
DateStrings == {"", "2019-13-01", "2019-01-09"}

\* time.Now(), as a day number
Clock == {10}

\* the pairs the provider quotes, whatever pair was asked for
QuotedPairs == { <<"SEK", "NOK">>, <<"NOK", "SEK">>, <<"SEK", "USD">> }
\* quoted values, in hundredths
Quotes == {950, 1025}
\* dates of the returned observations, relative to the request's To
Offsets == {-8, -7, -3, 0}

\* *float64: <<>> is nil, <<v>> points to v
Nil == <<>>
Ptr(v) == <<v>>
Deref(p) == p[1]

Observations(to) ==
    { [Base |-> p[1], Counter |-> p[2], Date |-> to + o, Value |-> v] :
        p \in QuotedPairs, o \in Offsets, v \in {Nil} \cup {Ptr(q) : q \in Quotes} }

SeqsUpTo(S, n) == UNION { [1..k -> S] : k \in 0..n }

DayStatuses(from) == { [Date |-> from + o, IsBankDay |-> b] : o \in {0, 1}, b \in BOOLEAN }

----------------------------------------------------------------------------
(* Library conversions used by the handlers *)

Digit == [c \in {"0", "1", "2", "3", "4", "5", "6", "7", "8", "9"} |->
            CASE c = "0" -> 0 [] c = "1" -> 1 [] c = "2" -> 2 [] c = "3" -> 3
              [] c = "4" -> 4 [] c = "5" -> 5 [] c = "6" -> 6 [] c = "7" -> 7
              [] c = "8" -> 8 [] c = "9" -> 9]

IsDigits(s) == \A i \in 1..Len(s) : s[i] \in DOMAIN Digit

RECURSIVE ParseDigits(_)
ParseDigits(s) ==
    IF s = <<>> THEN 0
    ELSE ParseDigits(SubSeq(s, 1, Len(s) - 1)) * 10 + Digit[s[Len(s)]]

\* strconv.ParseFloat(s, 64) on decimal notation, in hundredths: an
\* integer part, optionally a point and a fraction (two digits are kept).
ParseFloat(s) ==
    LET dots == { i \in 1..Len(s) : s[i] = "." }
    IN  IF dots = {} THEN
            IF Len(s) > 0 /\ IsDigits(s)
            THEN [f |-> ParseDigits(s) * 100, err |-> NoError]
            ELSE [f |-> 0, err |-> errParseFloatSyntax]
        ELSE IF Cardinality(dots) = 1 THEN
            LET p == CHOOSE i \in dots : TRUE
                int == SubSeq(s, 1, p - 1)
                frac == SubSeq(s, p + 1, Len(s))
                frac2 == SubSeq(frac \o <<"0", "0">>, 1, 2)
            IN  IF Len(int) + Len(frac) > 0 /\ IsDigits(int) /\ IsDigits(frac)
                THEN [f |-> ParseDigits(int) * 100 + ParseDigits(frac2), err |-> NoError]
                ELSE [f |-> 0, err |-> errParseFloatSyntax]
        ELSE [f |-> 0, err |-> errParseFloatSyntax]

\* date.Parse: layout 2006-01-02; the month must be 01..12
date_Parse(s) ==
    CASE s = "2019-01-09" -> [t |-> 9, err |-> NoError]
      [] s = "2019-01-06" -> [t |-> 6, err |-> NoError]
      [] OTHER -> [t |-> 0, err |-> errDateParse]

\* currency.Parse: the normalised (upper-case) code; total
currency_Parse(s) ==
    CASE s = "sek" -> "SEK"
      [] s = "nok" -> "NOK"
      [] s = "usd" -> "USD"
      [] OTHER -> s

\* time.Time.AddDate(0, 0, days)
AddDate(t, days) == t + days

\* fmt's %f of a fixed-point number n / scale: six digits after the point
Pad6(x) ==
    CASE x < 10 -> "00000" \o ToString(x)
      [] x >= 10 /\ x < 100 -> "0000" \o ToString(x)
      [] x >= 100 /\ x < 1000 -> "000" \o ToString(x)
      [] x >= 1000 /\ x < 10000 -> "00" \o ToString(x)
      [] x >= 10000 /\ x < 100000 -> "0" \o ToString(x)
      [] OTHER -> ToString(x)

Sprintf_f(n, scale) ==
    ToString(n \div scale) \o "." \o Pad6((n % scale) * (1000000 \div scale))

\* fmt's %v of a bool
Sprintf_v(b) == IF b THEN "true" ELSE "false"

\* scale of a rate or an amount, and of their product
Hundredths == 100
TenThousandths == 10000

----------------------------------------------------------------------------
(* http.ResponseWriter *)

\* status 0: no header written yet
NewResponseWriter == [status |-> 0, body |-> <<>>]

\* http.Error: WriteHeader(code), then the message and a newline
http_Error(wr, msg, code) ==
    [status |-> IF wr.status = 0 THEN code ELSE wr.status,
     body   |-> Append(wr.body, msg \o "\n")]

\* fmt.Fprintf(w, ...): the first Write sends status 200 if none was sent
Fprintf(wr, text) ==
    [status |-> IF wr.status = 0 THEN StatusOK ELSE wr.status,
     body   |-> Append(wr.body, text)]

----------------------------------------------------------------------------
(* api.go: parameter parsing *)

parseDateParam(v, now) ==
    IF v.date = "" THEN [day |-> now, err |-> NoError]
    ELSE LET p == date_Parse(v.date)
         IN  IF p.err # NoError THEN [day |-> 0, err |-> p.err]
             ELSE [day |-> p.t, err |-> NoError]

parseExchangeParams(v, now) ==
    LET d == parseDateParam(v, now)
    IN  IF d.err # NoError
        THEN [base |-> "", counter |-> "", day |-> d.day, err |-> d.err]
        ELSE IF v.base = ""
        THEN [base |-> "", counter |-> "", day |-> d.day, err |-> errNeedBaseCurrency]
        ELSE IF v.counter = ""
        THEN [base |-> currency_Parse(v.base), counter |-> "", day |-> d.day,
              err |-> errNeedCounterCurrency]
        ELSE [base |-> currency_Parse(v.base), counter |-> currency_Parse(v.counter),
              day |-> d.day, err |-> NoError]

\* parseValueParams without the check for a missing value
parseValueParams_lenient(v) ==
    IF v.value = <<>> THEN [f |-> 0, err |-> NoError]
    ELSE ParseFloat(v.value)

parseValueParams(v) ==
    IF v.value = <<>> THEN [f |-> 0, err |-> errNoValueProvided]
    ELSE ParseFloat(v.value)

(* main.go (earlier revision): the date defaults to 2019-01-06 *)
DefaultDate_main == 6

parseExchangeParams_main(v) ==
    LET p == date_Parse(v.date)
        d == IF v.date = "" THEN [day |-> DefaultDate_main, err |-> NoError]
             ELSE IF p.err # NoError THEN [day |-> 0, err |-> p.err]
             ELSE [day |-> p.t, err |-> NoError]
    IN  IF d.err # NoError
        THEN [base |-> "", counter |-> "", day |-> d.day, err |-> d.err]
        ELSE IF v.base = ""
        THEN [base |-> "", counter |-> "", day |-> d.day, err |-> errNeedBaseCurrency]
        ELSE IF v.counter = ""
        THEN [base |-> currency_Parse(v.base), counter |-> "", day |-> d.day,
              err |-> errNeedCounterCurrency]
        ELSE [base |-> currency_Parse(v.base), counter |-> currency_Parse(v.counter),
              day |-> d.day, err |-> NoError]

----------------------------------------------------------------------------
(* api.go: rateForDate *)

\* width of the lookback window, in days
Lookback == 7

\* the request with base and counter exchanged
ExchangeRatesRequest_swapped(base, counter, date) ==
    [op              |-> "ExchangeRates",
     CurrencyPairs   |-> << [Base |-> counter, Counter |-> base] >>,
     AggregateMethod |-> "Daily",
     From            |-> AddDate(date, -Lookback),
     To              |-> date]

\* the riksbank.ExchangeRatesRequest rateForDate sends
ExchangeRatesRequest(base, counter, date) ==
    [op              |-> "ExchangeRates",
     CurrencyPairs   |-> << [Base |-> base, Counter |-> counter] >>,
     AggregateMethod |-> "Daily",
     From            |-> AddDate(date, -Lookback),
     To              |-> date]

\* the filter comparing the base currency only
FilterPair_baseOnly(res, base, counter) ==
    SelectSeq(res, LAMBDA er : er.Base = base)

\* the loop keeping the observations of the requested pair
FilterPair(res, base, counter) ==
    SelectSeq(res, LAMBDA er : er.Base = base /\ er.Counter = counter)

Orderings(s) ==
    { p \in [1..Len(s) -> 1..Len(s)] : \A i, j \in 1..Len(s) : i # j => p[i] # p[j] }

\* the sort left out: the filtered slice in the provider's order
sort_Slice_omitted(s) == { s }

\* sort.Slice with the comparison turned round: earliest first
sort_Slice_ascending(s) ==
    { [i \in 1..Len(s) |-> s[p[i]]] : p \in
        { q \in Orderings(s) :
            \A i, j \in 1..Len(s) : i < j => ~(s[q[j]].Date < s[q[i]].Date) } }

\* sort.Slice with less(i, j) == s[j].Date < s[i].Date: some ordering of s
\* in which no element precedes a later-dated one (the sort is not stable)
sort_Slice(s) ==
    { [i \in 1..Len(s) |-> s[p[i]]] : p \in
        { q \in Orderings(s) :
            \A i, j \in 1..Len(s) : i < j => ~(s[q[i]].Date < s[q[j]].Date) } }

\* rateForDate reporting a failed provider call as missing data
rateForDate_fail_masked(err) == [rate |-> 0, err |-> errNoCurrencyDataForPeriod]

\* rateForDate after a failed provider call
rateForDate_fail(err) == [rate |-> 0, err |-> err]

\* rateForDate falling back to the most recent observation with a value
rateForDate_select_fallback(sorted) ==
    LET present == SelectSeq(sorted, LAMBDA er : er.Value # Nil)
    IN  IF Len(sorted) < 1 THEN [rate |-> 0, err |-> errNoCurrencyDataForPeriod]
        ELSE IF present = <<>> THEN [rate |-> 0, err |-> errNoConversionRateForPeriod]
        ELSE [rate |-> Deref(present[1].Value), err |-> NoError]

\* rateForDate with the two errors exchanged
rateForDate_select_swapped(sorted) ==
    IF Len(sorted) < 1 THEN [rate |-> 0, err |-> errNoConversionRateForPeriod]
    ELSE LET value == sorted[1].Value
         IN  IF value = Nil THEN [rate |-> 0, err |-> errNoCurrencyDataForPeriod]
             ELSE [rate |-> Deref(value), err |-> NoError]

\* rateForDate after the sort: the head of the slice decides
rateForDate_select(sorted) ==
    IF Len(sorted) < 1 THEN [rate |-> 0, err |-> errNoCurrencyDataForPeriod]
    ELSE LET value == sorted[1].Value
         IN  IF value = Nil THEN [rate |-> 0, err |-> errNoConversionRateForPeriod]
             ELSE [rate |-> Deref(value), err |-> NoError]

----------------------------------------------------------------------------
(* api.go: the handlers, up to the provider call and after it *)

ParseFailed(err, value) ==
    [err |-> err, value |-> value, base |-> "", counter |-> "", day |-> 0]

\* exchangeHandler, lines 117-126
exchangeHandler_parse(v, now) ==
    LET pv == parseValueParams(v)
        pe == parseExchangeParams(v, now)
    IN  IF pv.err # NoError THEN ParseFailed(pv.err, pv.f)
        ELSE [err |-> pe.err, value |-> pv.f, base |-> pe.base,
              counter |-> pe.counter, day |-> pe.day]

\* exchangeRateHandler, lines 139-143
exchangeRateHandler_parse(v, now) ==
    LET pe == parseExchangeParams(v, now)
    IN  [err |-> pe.err, value |-> 0, base |-> pe.base,
         counter |-> pe.counter, day |-> pe.day]

\* dayHandler, lines 156-160
dayHandler_parse(v, now) ==
    LET d == parseDateParam(v, now)
    IN  [err |-> d.err, value |-> 0, base |-> "", counter |-> "", day |-> d.day]

\* the riksbank.DaysRequest dayHandler sends
DaysRequest(day) == [op |-> "Days", From |-> day, To |-> day]

\* exchangeHandler, lines 128-132
exchangeHandler_respond(wr, value, r) ==
    IF r.err # NoError THEN http_Error(wr, r.err, StatusInternalServerError)
    ELSE Fprintf(wr, Sprintf_f(r.rate * value, TenThousandths))

\* exchangeRateHandler, lines 145-149
exchangeRateHandler_respond(wr, r) ==
    IF r.err # NoError THEN http_Error(wr, r.err, StatusInternalServerError)
    ELSE Fprintf(wr, Sprintf_f(r.rate, Hundredths))

\* dayHandler reading the last day of the list
dayHandler_respond_last(wr, rep) ==
    IF rep.err # NoError
    THEN [pc |-> "done", w |-> http_Error(wr, rep.err, StatusInternalServerError)]
    ELSE IF Len(rep.Days) = 0
    THEN [pc |-> "panic", w |-> wr]
    ELSE [pc |-> "done", w |-> Fprintf(wr, Sprintf_v(rep.Days[Len(rep.Days)].IsBankDay))]

\* dayHandler, lines 165-169: res.Days[0] of an empty slice panics (index
\* out of range); net/http recovers the panic and drops the connection.
dayHandler_respond(wr, rep) ==
    IF rep.err # NoError
    THEN [pc |-> "done", w |-> http_Error(wr, rep.err, StatusInternalServerError)]
    ELSE IF Len(rep.Days) = 0
    THEN [pc |-> "panic", w |-> wr]
    ELSE [pc |-> "done", w |-> Fprintf(wr, Sprintf_v(rep.Days[1].IsBankDay))]

(* main.go (earlier revision): the handlers there *)

\* exchangeHandler, lines 190-199
exchangeHandler_main_parse(v) ==
    LET pv == parseValueParams(v)
        pe == parseExchangeParams_main(v)
    IN  IF pv.err # NoError THEN ParseFailed(pv.err, pv.f)
        ELSE [err |-> pe.err, value |-> pv.f, base |-> pe.base,
              counter |-> pe.counter, day |-> pe.day]

\* exchangeRateHandler, lines 211-232: the same checks, inlined
exchangeRateHandler_main_parse(v) ==
    LET pe == parseExchangeParams_main(v)
    IN  [err |-> pe.err, value |-> 0, base |-> pe.base,
         counter |-> pe.counter, day |-> pe.day]

\* exchangeHandler, lines 200-204: no return after http.Error
exchangeHandler_main_respond(wr, value, r) ==
    LET w1 == IF r.err # NoError
              THEN http_Error(wr, r.err, StatusInternalServerError) ELSE wr
    IN  Fprintf(w1, Sprintf_f(r.rate * value, TenThousandths))

\* exchangeRateHandler, lines 233-237: no return after http.Error
exchangeRateHandler_main_respond(wr, r) ==
    LET w1 == IF r.err # NoError
              THEN http_Error(wr, r.err, StatusInternalServerError) ELSE wr
    IN  Fprintf(w1, Sprintf_f(r.rate, Hundredths))

----------------------------------------------------------------------------
(* The state machine *)

NoReply == [op |-> "none", err |-> NoError, ExchangeRates |-> <<>>, Days |-> <<>>]
NoReturn == [rate |-> 0, err |-> NoError]
NoVars == [value |-> <<>>, base |-> "", counter |-> "", date |-> ""]
NoLocals == [value |-> 0, base |-> "", counter |-> "", day |-> 0]

ExchangeVars ==
    [value : ValueStrings, base : BaseStrings, counter : CounterStrings, date : DateStrings]
RateVars ==
    [value : {<<>>}, base : BaseStrings, counter : CounterStrings, date : DateStrings]
DayVars ==
    [value : {<<>>}, base : {""}, counter : {""}, date : DateStrings]

\* the goroutines net/http runs handlers on
Requests == 1..MaxInFlight

\* an activation record before the handler has run
NoFrame == [locals |-> NoLocals, queries |-> <<>>, exchangeRates |-> <<>>, ret |-> NoReturn]

Init ==
    /\ handler = "none"
    /\ vars = NoVars
    /\ pc = "idle"
    /\ locals = NoLocals
    /\ queries = <<>>
    /\ reply = NoReply
    /\ exchangeRates = <<>>
    /\ ret = NoReturn
    /\ w = NewResponseWriter
    /\ request = [r \in Requests |-> [handler |-> "none", vars |-> NoVars]]
    /\ gpc = [r \in Requests |-> "idle"]
    /\ frames = [r \in Requests |-> NoFrame]
    /\ answer = [r \in Requests |-> NoReply]
    /\ writer = [r \in Requests |-> NewResponseWriter]
    /\ overlapped = [r \in Requests |-> FALSE]

\* no request in flight: the server accepts the next one
Ready == pc = "idle"

\* a handler h runs on request variables v: a parse failure p.err answers
\* 422 and ends; otherwise the handler sends q and waits for the provider
Serve(h, v, p, q) ==
    /\ handler' = h
    /\ vars' = v
    /\ locals' = [value |-> p.value, base |-> p.base, counter |-> p.counter, day |-> p.day]
    /\ reply' = NoReply
    /\ exchangeRates' = <<>>
    /\ ret' = NoReturn
    /\ IF p.err # NoError
       THEN /\ w' = http_Error(NewResponseWriter, p.err, StatusUnprocessableEntity)
            /\ pc' = "done"
            /\ queries' = <<>>
       ELSE /\ w' = NewResponseWriter
            /\ pc' = q.op
            /\ queries' = <<q>>
    /\ UNCHANGED concvars

exchangeHandler ==
    /\ Ready
    /\ \E v \in ExchangeVars, now \in Clock :
         LET p == exchangeHandler_parse(v, now)
         IN  Serve("exchangeHandler", v, p, ExchangeRatesRequest(p.base, p.counter, p.day))

exchangeRateHandler ==
    /\ Ready
    /\ \E v \in RateVars, now \in Clock :
         LET p == exchangeRateHandler_parse(v, now)
         IN  Serve("exchangeRateHandler", v, p, ExchangeRatesRequest(p.base, p.counter, p.day))

dayHandler ==
    /\ Ready
    /\ \E v \in DayVars, now \in Clock :
         LET p == dayHandler_parse(v, now)
         IN  Serve("dayHandler", v, p, DaysRequest(p.day))

exchangeHandler_main ==
    /\ Ready
    /\ \E v \in ExchangeVars :
         LET p == exchangeHandler_main_parse(v)
         IN  Serve("exchangeHandler_main", v, p, ExchangeRatesRequest(p.base, p.counter, p.day))

exchangeRateHandler_main ==
    /\ Ready
    /\ \E v \in RateVars :
         LET p == exchangeRateHandler_main_parse(v)
         IN  Serve("exchangeRateHandler_main", v, p, ExchangeRatesRequest(p.base, p.counter, p.day))

\* what the handler in flight writes once rateForDate has returned r
Respond(h, wr, value, r) ==
    CASE h = "exchangeHandler" -> exchangeHandler_respond(wr, value, r)
      [] h = "exchangeRateHandler" -> exchangeRateHandler_respond(wr, r)
      [] h = "exchangeHandler_main" -> exchangeHandler_main_respond(wr, value, r)
      [] h = "exchangeRateHandler_main" -> exchangeRateHandler_main_respond(wr, r)

\* rb.ExchangeRates fails: rateForDate returns, the handler answers
ExchangeRatesFails ==
    /\ pc = "ExchangeRates"
    /\ \E e \in ProviderErrors :
         /\ reply' = [op |-> "ExchangeRates", err |-> e, ExchangeRates |-> <<>>, Days |-> <<>>]
         /\ exchangeRates' = <<>>
         /\ ret' = rateForDate_fail(e)
    /\ w' = Respond(handler, w, locals.value, ret')
    /\ pc' = "done"
    /\ UNCHANGED <<handler, vars, locals, queries>>
    /\ UNCHANGED concvars

\* rb.ExchangeRates answers with a series: rateForDate filters, sorts and
\* selects, the handler answers
ExchangeRatesReturns ==
    /\ pc = "ExchangeRates"
    /\ \E res \in SeqsUpTo(Observations(queries[1].To), MaxObs) :
         /\ reply' = [op |-> "ExchangeRates", err |-> NoError, ExchangeRates |-> res,
                      Days |-> <<>>]
         /\ \E sorted \in sort_Slice(FilterPair(res, locals.base, locals.counter)) :
              /\ exchangeRates' = sorted
              /\ ret' = rateForDate_select(sorted)
    /\ w' = Respond(handler, w, locals.value, ret')
    /\ pc' = "done"
    /\ UNCHANGED <<handler, vars, locals, queries>>
    /\ UNCHANGED concvars

\* rb.Days fails
DaysFails ==
    /\ pc = "Days"
    /\ \E e \in ProviderErrors :
         /\ reply' = [op |-> "Days", err |-> e, ExchangeRates |-> <<>>, Days |-> <<>>]
         /\ w' = dayHandler_respond(w, reply').w
         /\ pc' = dayHandler_respond(w, reply').pc
    /\ UNCHANGED <<handler, vars, locals, queries, exchangeRates, ret>>
    /\ UNCHANGED concvars

\* rb.Days answers with a list of days
DaysReturns ==
    /\ pc = "Days"
    /\ \E days \in SeqsUpTo(DayStatuses(queries[1].From), MaxObs) :
         /\ reply' = [op |-> "Days", err |-> NoError, ExchangeRates |-> <<>>, Days |-> days]
         /\ w' = dayHandler_respond(w, reply').w
         /\ pc' = dayHandler_respond(w, reply').pc
    /\ UNCHANGED <<handler, vars, locals, queries, exchangeRates, ret>>
    /\ UNCHANGED concvars

\* net/http ends the request: the response is sent (or, after a panic, the
\* connection dropped) and everything the request owned is discarded
ServeHTTPReturns ==
    /\ pc \in {"done", "panic"}
    /\ handler' = "none"
    /\ vars' = NoVars
    /\ pc' = "idle"
    /\ locals' = NoLocals
    /\ queries' = <<>>
    /\ reply' = NoReply
    /\ exchangeRates' = <<>>
    /\ ret' = NoReturn
    /\ w' = NewResponseWriter
    /\ UNCHANGED concvars

Next ==
    \/ exchangeHandler
    \/ exchangeRateHandler
    \/ dayHandler
    \/ exchangeHandler_main
    \/ exchangeRateHandler_main
    \/ ExchangeRatesFails
    \/ ExchangeRatesReturns
    \/ DaysFails
    \/ DaysReturns
    \/ ServeHTTPReturns

Spec == Init /\ [][Next]_allvars

----------------------------------------------------------------------------
(* Requests handled concurrently: net/http calls the handler on one       *)
(* goroutine per request; the closures share rb and nothing else.         *)

\* the requests and answers the concurrent runs are driven with
ConcRequests ==
    { [handler |-> "exchangeHandler",
       vars |-> [value |-> <<"1", ".", "5">>, base |-> "sek", counter |-> "nok",
                 date |-> "2019-01-09"]],
      [handler |-> "exchangeHandler",
       vars |-> [value |-> <<"1", "x", "5">>, base |-> "sek", counter |-> "nok",
                 date |-> ""]],
      [handler |-> "exchangeRateHandler",
       vars |-> [value |-> <<>>, base |-> "sek", counter |-> "USD", date |-> ""]],
      [handler |-> "dayHandler",
       vars |-> [value |-> <<>>, base |-> "", counter |-> "", date |-> "2019-01-09"]],
      [handler |-> "exchangeHandler_main",
       vars |-> [value |-> <<"0">>, base |-> "sek", counter |-> "nok", date |-> ""]],
      [handler |-> "exchangeRateHandler_main",
       vars |-> [value |-> <<>>, base |-> "sek", counter |-> "nok",
                 date |-> "2019-01-09"]] }

ConcSeries(to) ==
    { <<>>,
      << [Base |-> "SEK", Counter |-> "NOK", Date |-> to, Value |-> Ptr(950)] >>,
      << [Base |-> "SEK", Counter |-> "USD", Date |-> to - 3, Value |-> Ptr(1025)],
         [Base |-> "SEK", Counter |-> "NOK", Date |-> to, Value |-> Nil] >> }

ConcDays(from) ==
    { <<>>, << [Date |-> from, IsBankDay |-> TRUE] >>, << [Date |-> from, IsBankDay |-> FALSE] >> }

ConcErrors == {"context canceled"}

\* one activation record for every call: locals kept in package variables
Frame_shared(r) == 1

\* the activation record of the handler call serving request r: every call
\* of the closure has its own parameters, locals and named results
Frame(r) == r

\* the handler's checks before the provider call
ParseOf(h, v, now) ==
    CASE h = "exchangeHandler" -> exchangeHandler_parse(v, now)
      [] h = "exchangeRateHandler" -> exchangeRateHandler_parse(v, now)
      [] h = "dayHandler" -> dayHandler_parse(v, now)
      [] h = "exchangeHandler_main" -> exchangeHandler_main_parse(v)
      [] h = "exchangeRateHandler_main" -> exchangeRateHandler_main_parse(v)

\* the provider call the handler makes after them
QueryOf(h, p) ==
    IF h = "dayHandler" THEN DaysRequest(p.day)
    ELSE ExchangeRatesRequest(p.base, p.counter, p.day)

\* another goroutine is waiting for the provider
OthersWaiting(r) == \E s \in Requests \ {r} : gpc[s] \in {"ExchangeRates", "Days"}

\* goroutine r starts serving a request: parse, answer 422 or call the provider
ServeRequest(r) ==
    /\ gpc[r] = "idle"
    /\ \E rq \in ConcRequests, now \in Clock :
         LET p == ParseOf(rq.handler, rq.vars, now)
             q == QueryOf(rq.handler, p)
             l == [value |-> p.value, base |-> p.base, counter |-> p.counter, day |-> p.day]
         IN  /\ request' = [request EXCEPT ![r] = rq]
             /\ answer' = [answer EXCEPT ![r] = NoReply]
             /\ IF p.err # NoError
                THEN /\ frames' = [frames EXCEPT ![Frame(r)] =
                                      [NoFrame EXCEPT !.locals = l]]
                     /\ writer' = [writer EXCEPT ![r] =
                          http_Error(NewResponseWriter, p.err, StatusUnprocessableEntity)]
                     /\ gpc' = [gpc EXCEPT ![r] = "done"]
                ELSE /\ frames' = [frames EXCEPT ![Frame(r)] =
                                      [NoFrame EXCEPT !.locals = l, !.queries = <<q>>]]
                     /\ writer' = [writer EXCEPT ![r] = NewResponseWriter]
                     /\ gpc' = [gpc EXCEPT ![r] = q.op]
    /\ overlapped' = [overlapped EXCEPT ![r] = OthersWaiting(r)]
    /\ UNCHANGED allvars

\* rb.ExchangeRates returns to goroutine r: rateForDate ends, the handler answers
ExchangeRatesAnswers(r) ==
    /\ gpc[r] = "ExchangeRates"
    /\ LET f == frames[Frame(r)]
       IN  \E rep \in {[op |-> "ExchangeRates", err |-> e, ExchangeRates |-> <<>>,
                        Days |-> <<>>] : e \in ConcErrors}
                 \cup {[op |-> "ExchangeRates", err |-> NoError, ExchangeRates |-> res,
                        Days |-> <<>>] : res \in ConcSeries(f.queries[1].To)} :
             \E sorted \in sort_Slice(FilterPair(rep.ExchangeRates,
                                                 f.locals.base, f.locals.counter)) :
               LET rt == IF rep.err # NoError THEN rateForDate_fail(rep.err)
                         ELSE rateForDate_select(sorted)
               IN  /\ answer' = [answer EXCEPT ![r] = rep]
                   /\ frames' = [frames EXCEPT ![Frame(r)] =
                                    [f EXCEPT !.exchangeRates = sorted, !.ret = rt]]
                   /\ writer' = [writer EXCEPT ![r] =
                                    Respond(request[r].handler, writer[r], f.locals.value, rt)]
    /\ gpc' = [gpc EXCEPT ![r] = "done"]
    /\ overlapped' = [overlapped EXCEPT ![r] = overlapped[r] \/ OthersWaiting(r)]
    /\ UNCHANGED <<request>>
    /\ UNCHANGED allvars

\* rb.Days returns to goroutine r: dayHandler answers, or panics
DaysAnswers(r) ==
    /\ gpc[r] = "Days"
    /\ \E rep \in {[op |-> "Days", err |-> e, ExchangeRates |-> <<>>, Days |-> <<>>] :
                      e \in ConcErrors}
              \cup {[op |-> "Days", err |-> NoError, ExchangeRates |-> <<>>, Days |-> d] :
                      d \in ConcDays(frames[Frame(r)].queries[1].From)} :
         /\ answer' = [answer EXCEPT ![r] = rep]
         /\ writer' = [writer EXCEPT ![r] = dayHandler_respond(writer[r], rep).w]
         /\ gpc' = [gpc EXCEPT ![r] = dayHandler_respond(writer[r], rep).pc]
    /\ overlapped' = [overlapped EXCEPT ![r] = overlapped[r] \/ OthersWaiting(r)]
    /\ UNCHANGED <<request, frames>>
    /\ UNCHANGED allvars

\* the handler call of goroutine r is over: its request, frame and writer go
RequestEnds(r) ==
    /\ gpc[r] \in {"done", "panic"}
    /\ request' = [request EXCEPT ![r] = [handler |-> "none", vars |-> NoVars]]
    /\ gpc' = [gpc EXCEPT ![r] = "idle"]
    /\ frames' = [frames EXCEPT ![Frame(r)] = NoFrame]
    /\ answer' = [answer EXCEPT ![r] = NoReply]
    /\ writer' = [writer EXCEPT ![r] = NewResponseWriter]
    /\ overlapped' = [overlapped EXCEPT ![r] = FALSE]
    /\ UNCHANGED allvars

ConcNext ==
    \E r \in Requests :
        \/ ServeRequest(r)
        \/ ExchangeRatesAnswers(r)
        \/ DaysAnswers(r)
        \/ RequestEnds(r)

ConcSpec == Init /\ [][ConcNext]_<<allvars, concvars>>

----------------------------------------------------------------------------
(* Vocabulary of the properties *)

\* rateForDate has returned to the handler in flight
Resolved == pc = "done" /\ reply.op = "ExchangeRates"
\* ... after a provider call that succeeded
ResolvedSeries == Resolved /\ reply.err = NoError

\* positions in the provider's series of the observations for the
\* requested pair (base, counter)
ForPair ==
    { i \in DOMAIN reply.ExchangeRates :
        /\ reply.ExchangeRates[i].Base = locals.base
        /\ reply.ExchangeRates[i].Counter = locals.counter }

ObsDate(i) == reply.ExchangeRates[i].Date
ObsValue(i) == reply.ExchangeRates[i].Value

\* the lookback window [D-7, D] of the as-of date D
InWindow(i) == ObsDate(i) >= locals.day - 7 /\ ObsDate(i) <= locals.day

\* the latest-dated members of a set of positions
LatestOf(S) == { i \in S : \A j \in S : ObsDate(j) <= ObsDate(i) }

\* in-window observations of the pair that carry a value
PresentInWindow == { i \in ForPair : InWindow(i) /\ ObsValue(i) # Nil }

----------------------------------------------------------------------------
(* C1 *)

\* C1 as stated: whenever the series holds an in-window observation of the
\* pair with a present value, rateForDate returns the value of the
\* latest-dated of those.
C1_AsStated ==
    (ResolvedSeries /\ PresentInWindow # {}) =>
        /\ ret.err = NoError
        /\ \E i \in LatestOf(PresentInWindow) : ret.rate = ObsValue(i)[1]

\* C1 (amended): if the latest-dated observation of the requested pair in
\* the series is dated within [D-7, D] and has a present value, rateForDate
\* returns that value without error, never the value of an earlier one,
\* also when other pairs have later-dated observations in the series.
C1_LatestOfPairReturned ==
    (/\ ResolvedSeries
     /\ ForPair # {}
     /\ \A i \in LatestOf(ForPair) : InWindow(i) /\ ObsValue(i) # Nil) =>
        /\ ret.err = NoError
        /\ \E i \in LatestOf(ForPair) : ret.rate = ObsValue(i)[1]

\* the pair's latest observation is in the window with a value, and
\* another pair has a later-dated observation with another value
C1_Witness ==
    /\ ResolvedSeries
    /\ ForPair # {}
    /\ \A i \in LatestOf(ForPair) : InWindow(i) /\ ObsValue(i) # Nil
    /\ \E k \in DOMAIN reply.ExchangeRates \ ForPair :
         /\ \A i \in ForPair : ObsDate(k) > ObsDate(i)
         /\ ObsValue(k) # Nil
         /\ \A i \in ForPair : ObsValue(k) # ObsValue(i)
    /\ ret.err = NoError

----------------------------------------------------------------------------
(* C2 *)

\* C2: if the latest-dated observation of the requested pair has no value,
\* rateForDate fails with errNoConversionRateForPeriod and returns the
\* zero rate; it does not fall back to an earlier observation of the pair
\* that has a value.
C2_AbsentLatestIsTerminal ==
    (/\ ResolvedSeries
     /\ ForPair # {}
     /\ \A i \in LatestOf(ForPair) : ObsValue(i) = Nil) =>
        /\ ret.err = errNoConversionRateForPeriod
        /\ ret.rate = 0

\* the latest observation of the pair has no value while an earlier one,
\* inside the window, has
C2_Witness ==
    /\ ResolvedSeries
    /\ ForPair # {}
    /\ \A i \in LatestOf(ForPair) : ObsValue(i) = Nil
    /\ \E j \in ForPair \ LatestOf(ForPair) : InWindow(j) /\ ObsValue(j) # Nil
    /\ ret.err = errNoConversionRateForPeriod

----------------------------------------------------------------------------
(* C3 *)

\* C3: rateForDate fails with errNoCurrencyDataForPeriod exactly when the
\* provider call succeeded and the series holds no observation of the
\* requested pair (an empty series included).
C3_NoDataIffNoMatch ==
    Resolved =>
        ((ret.err = errNoCurrencyDataForPeriod) <=> (reply.err = NoError /\ ForPair = {}))

\* a non-empty series without any observation of the requested pair
C3_Witness ==
    /\ ResolvedSeries
    /\ reply.ExchangeRates # <<>>
    /\ ForPair = {}
    /\ ret.err = errNoCurrencyDataForPeriod

----------------------------------------------------------------------------
(* C4 *)

\* C4 as stated: if every observation of the requested pair in the series
\* is dated before D-7, rateForDate fails with errNoCurrencyDataForPeriod.
C4_StaleOnlyFails ==
    (ResolvedSeries /\ \A i \in ForPair : ObsDate(i) < locals.day - 7) =>
        ret.err = errNoCurrencyDataForPeriod

----------------------------------------------------------------------------
(* C5 *)

\* C5: the observation rateForDate selects is one of the requested pair,
\* base and counter in that order; the rate it returns, or the
\* no-conversion-rate error, comes from an observation of that pair.
C5_PairExact ==
    ResolvedSeries =>
        /\ \A k \in DOMAIN exchangeRates :
             exchangeRates[k].Base = locals.base /\ exchangeRates[k].Counter = locals.counter
        /\ ret.err = NoError => \E i \in ForPair : ObsValue(i) = <<ret.rate>>
        /\ ret.err = errNoConversionRateForPeriod => \E i \in ForPair : ObsValue(i) = Nil
        /\ ret.err \in {NoError, errNoConversionRateForPeriod} => exchangeRates # <<>>

\* the swapped pair, or the pair with another counter, has a later-dated
\* observation with a value, next to an observation of the requested pair
C5_Witness ==
    /\ ResolvedSeries
    /\ ForPair # {}
    /\ \E k \in DOMAIN reply.ExchangeRates \ ForPair :
         /\ \/ /\ reply.ExchangeRates[k].Base = locals.counter
               /\ reply.ExchangeRates[k].Counter = locals.base
            \/ /\ reply.ExchangeRates[k].Base = locals.base
               /\ reply.ExchangeRates[k].Counter # locals.counter
         /\ ObsValue(k) # Nil
         /\ \A i \in ForPair : ObsDate(k) > ObsDate(i)

----------------------------------------------------------------------------
(* C6 *)

\* either revision of the conversion endpoint
Converting == handler \in {"exchangeHandler", "exchangeHandler_main"}

\* C6 as stated: the conversion endpoint writes amount * rate when
\* rateForDate succeeds, and when it fails writes the resolver's error and
\* no converted amount.
C6_ConvertOrFail ==
    (Converting /\ Resolved) =>
        IF ret.err = NoError
        THEN w = [status |-> 200,
                  body |-> << Sprintf_f(locals.value * ret.rate, 10000) >>]
        ELSE w = [status |-> 500, body |-> << ret.err \o "\n" >>]

----------------------------------------------------------------------------
(* C7 *)

\* the bank-day lookup has ended, one way or the other
DayAnswered == handler = "dayHandler" /\ reply.op = "Days" /\ pc \in {"done", "panic"}

\* C7 as stated: an empty list of days from a successful provider call is
\* answered as a no-data-for-period error, not read at index 0.
C7_EmptyDaysIsError ==
    (DayAnswered /\ reply.err = NoError /\ reply.Days = <<>>) =>
        /\ pc = "done"
        /\ w = [status |-> 500, body |-> << errNoCurrencyDataForPeriod \o "\n" >>]

----------------------------------------------------------------------------
(* C8 *)

\* C8: the bank-day lookup sends one query with From = To = the requested
\* day, and answers a non-empty list with the IsBankDay flag of its first
\* day, as it is.
C8_FirstDayFlag ==
    /\ (handler = "dayHandler" /\ pc \in {"Days", "done", "panic"} /\ w.status # 422) =>
          /\ queries = << [op |-> "Days", From |-> locals.day, To |-> locals.day] >>
          /\ vars.date = "2019-01-09" => locals.day = 9
          /\ vars.date = "" => locals.day \in Clock
    /\ (DayAnswered /\ reply.err = NoError /\ reply.Days # <<>>) =>
          /\ pc = "done"
          /\ w.status = 200
          /\ w.body = << IF reply.Days[1].IsBankDay THEN "true" ELSE "false" >>

\* two days came back with different flags, the first one of them a bank day
C8_Witness ==
    /\ DayAnswered
    /\ reply.err = NoError
    /\ Len(reply.Days) = 2
    /\ reply.Days[1].IsBankDay
    /\ ~reply.Days[2].IsBankDay
    /\ w.body = << "true" >>

----------------------------------------------------------------------------
(* C9 *)

\* C9: when the provider call fails, rateForDate returns the provider's
\* error itself with the zero rate, nothing is selected, and no second
\* query is sent; no request ever sends more than one query.
C9_ProviderErrorPassedThrough ==
    /\ Len(queries) <= 1
    /\ (Resolved /\ reply.err # NoError) =>
          /\ ret = [rate |-> 0, err |-> reply.err]
          /\ exchangeRates = <<>>
          /\ Len(queries) = 1
          /\ w.status = 500
          /\ w.body[1] = reply.err \o "\n"

\* the request context was cancelled during the provider call
C9_Witness ==
    /\ Resolved
    /\ reply.err = "context canceled"
    /\ ret.err = "context canceled"
    /\ Len(queries) = 1

----------------------------------------------------------------------------
(* C10 *)

\* path variables that do not parse
NonNumeric == { <<"1", "x", "5">> }
MalformedDates == { "2019-13-01" }

\* the request in flight lacks a parameter its handler requires, or
\* carries one that does not parse
BadRequest ==
    \/ /\ handler \in {"exchangeHandler", "exchangeHandler_main"}
       /\ vars.value \in {<<>>} \cup NonNumeric
    \/ /\ handler \in {"exchangeHandler", "exchangeHandler_main",
                       "exchangeRateHandler", "exchangeRateHandler_main"}
       /\ (vars.base = "" \/ vars.counter = "")
    \/ /\ handler # "none"
       /\ vars.date \in MalformedDates

\* C10: a request with a missing or unparsable parameter is answered 422
\* by the handler with no provider query issued, in every handler.
C10_RejectedBeforeQuery ==
    BadRequest =>
        /\ pc = "done"
        /\ queries = <<>>
        /\ reply = NoReply
        /\ w.status = 422
        /\ Len(w.body) = 1

\* a conversion request with a non-numeric amount and valid currencies
C10_Witness ==
    /\ handler = "exchangeHandler"
    /\ vars.value \in NonNumeric
    /\ vars.base # ""
    /\ vars.counter # ""
    /\ vars.date = "2019-01-09"
    /\ w = [status |-> 422, body |-> << errParseFloatSyntax \o "\n" >>]

----------------------------------------------------------------------------
(* C11 *)

\* rateForDate has been called for the request in flight
RateAsked ==
    /\ handler \in {"exchangeHandler", "exchangeRateHandler",
                    "exchangeHandler_main", "exchangeRateHandler_main"}
    /\ \/ pc = "ExchangeRates"
       \/ pc = "done" /\ reply.op = "ExchangeRates"

\* C11: the one query rateForDate sends asks for exactly one pair, the
\* requested base and counter in that order, from D minus seven days to D,
\* aggregated daily.
C11_QueryShape ==
    RateAsked =>
        /\ queries = << [op              |-> "ExchangeRates",
                         CurrencyPairs   |-> << [Base |-> locals.base,
                                                 Counter |-> locals.counter] >>,
                         AggregateMethod |-> "Daily",
                         From            |-> locals.day - 7,
                         To              |-> locals.day] >>
        /\ vars.base = "sek" => locals.base = "SEK"
        /\ vars.counter = "nok" => locals.counter = "NOK"
        /\ vars.counter = "USD" => locals.counter = "USD"
        /\ vars.date = "2019-01-09" => locals.day = 9

\* the rate of SEK/NOK on 2019-01-09 has been asked for: 2 to 9 January
C11_Witness ==
    /\ handler = "exchangeRateHandler"
    /\ pc = "ExchangeRates"
    /\ vars = [value |-> <<>>, base |-> "sek", counter |-> "nok", date |-> "2019-01-09"]
    /\ Len(queries) = 1
    /\ queries[1].CurrencyPairs = << [Base |-> "SEK", Counter |-> "NOK"] >>
    /\ queries[1].From = 2
    /\ queries[1].To = 9

----------------------------------------------------------------------------
(* C12 *)

\* no two observations of the series share base, counter and date
UniqueSlots ==
    \A i, j \in DOMAIN reply.ExchangeRates :
        (/\ i # j
         /\ reply.ExchangeRates[i].Base = reply.ExchangeRates[j].Base
         /\ reply.ExchangeRates[i].Counter = reply.ExchangeRates[j].Counter)
            => ObsDate(i) # ObsDate(j)

\* the observations of the series, as a set: their order forgotten
SeriesSet == { reply.ExchangeRates[i] : i \in DOMAIN reply.ExchangeRates }

\* what a set S of observations gives for the pair (base, counter): no
\* data without an observation of the pair, else what its latest one holds
SetOutcome(S, base, counter) ==
    LET P == { o \in S : o.Base = base /\ o.Counter = counter }
    IN  IF P = {} THEN [rate |-> 0, err |-> errNoCurrencyDataForPeriod]
        ELSE LET o == CHOOSE x \in P : \A y \in P : y.Date <= x.Date
             IN  IF o.Value = Nil
                 THEN [rate |-> 0, err |-> errNoConversionRateForPeriod]
                 ELSE [rate |-> o.Value[1], err |-> NoError]

\* C12: when (base, counter, date) is unique within the series, the rate
\* and error rateForDate returns are a function of the set of observations
\* returned, so they are the same for every ordering of the series.
C12_OrderIndependent ==
    (ResolvedSeries /\ UniqueSlots) =>
        ret = SetOutcome(SeriesSet, locals.base, locals.counter)

\* two observations of the pair with different values came back
\* earliest first, and the later one was returned
C12_Witness ==
    /\ ResolvedSeries
    /\ UniqueSlots
    /\ Len(reply.ExchangeRates) = 2
    /\ ForPair = {1, 2}
    /\ ObsDate(1) < ObsDate(2)
    /\ ObsValue(1) # Nil
    /\ ObsValue(2) # Nil
    /\ ObsValue(1) # ObsValue(2)
    /\ ret = [rate |-> ObsValue(2)[1], err |-> NoError]

----------------------------------------------------------------------------
(* C14 *)

\* what a handler can report, as written by http.Error
ParseMessages ==
    { e \o "\n" : e \in {errNoValueProvided, errParseFloatSyntax, errDateParse,
                         errNeedBaseCurrency, errNeedCounterCurrency} }
FailureMessages ==
    { e \o "\n" : e \in ProviderErrors \cup
                        {errNoCurrencyDataForPeriod, errNoConversionRateForPeriod} }

\* C14 as stated: every request ends with one thing written, either an
\* error message under 422 or 500, or the value under 200.
C14_OneOutcome ==
    (handler # "none" /\ pc \in {"done", "panic"}) =>
        /\ pc = "done"
        /\ Len(w.body) = 1
        /\ \/ w.status = 422 /\ w.body[1] \in ParseMessages
           \/ w.status = 500 /\ w.body[1] \in FailureMessages
           \/ w.status = 200 /\ w.body[1] \notin ParseMessages \cup FailureMessages

----------------------------------------------------------------------------
(* C13 *)

\* what request (h, v) ends with when it is served alone and the provider
\* answers rep: the goroutine's position and the response written
AloneOutcomes(h, v, rep) ==
    UNION { LET p == ParseOf(h, v, now)
            IN  IF p.err # NoError
                THEN { [pc |-> "done",
                        w |-> http_Error(NewResponseWriter, p.err, 422)] }
                ELSE IF rep.op = "none"
                THEN { [pc |-> QueryOf(h, p).op, w |-> NewResponseWriter] }
                ELSE IF rep.op = "Days"
                THEN { dayHandler_respond(NewResponseWriter, rep) }
                ELSE IF rep.err # NoError
                THEN { [pc |-> "done",
                        w |-> Respond(h, NewResponseWriter, p.value,
                                      [rate |-> 0, err |-> rep.err])] }
                ELSE { [pc |-> "done",
                        w |-> Respond(h, NewResponseWriter, p.value,
                                      rateForDate_select(sorted))] :
                         sorted \in sort_Slice(FilterPair(rep.ExchangeRates,
                                                          p.base, p.counter)) }
            : now \in Clock }

\* every request in flight stands where it would stand served alone
OwnOutcome ==
    \A r \in Requests :
        gpc[r] # "idle" =>
            [pc |-> gpc[r], w |-> writer[r]]
                \in AloneOutcomes(request[r].handler, request[r].vars, answer[r])

\* every activation record holds what its own request put there, and the
\* record, answer and writer of a goroutine that serves nothing are untouched
OwnFrame ==
    \A r \in Requests :
        IF gpc[r] = "idle"
        THEN /\ frames[r] = NoFrame
             /\ answer[r] = NoReply
             /\ writer[r] = NewResponseWriter
        ELSE \E now \in Clock :
               LET p == ParseOf(request[r].handler, request[r].vars, now)
               IN  /\ frames[r].locals = [value |-> p.value, base |-> p.base,
                                          counter |-> p.counter, day |-> p.day]
                   /\ frames[r].queries =
                        IF p.err # NoError THEN <<>>
                        ELSE << QueryOf(request[r].handler, p) >>
                   /\ \A k \in DOMAIN frames[r].exchangeRates :
                        \E i \in DOMAIN answer[r].ExchangeRates :
                            frames[r].exchangeRates[k] = answer[r].ExchangeRates[i]

\* C13: under every interleaving of the requests in flight, a request's
\* outcome is the one its own parameters and the provider's answer to its
\* own query give, and what a request keeps in its call is never changed
\* by a step of another request.
C13_NoInterference == OwnOutcome /\ OwnFrame

\* two requests overlapped in time and ended with different successful
\* answers
C13_Witness ==
    /\ gpc[1] = "done"
    /\ gpc[2] = "done"
    /\ overlapped[1]
    /\ overlapped[2]
    /\ request[1] # request[2]
    /\ writer[1].status = 200
    /\ writer[2].status = 200
    /\ writer[1] # writer[2]

====
